---- MODULE Spec2Model ----
(***************************************************************************)
(* A model of unfccc_di_api: the two single-category readers, the unified  *)
(* facade, variable selection, the batched query loop and the assembly of  *)
(* the raw answer into a table.                                            *)
(*                                                                         *)
(* Strings are sequences of Unicode code points, so that str.translate,    *)
(* dict lookups by name and the lexicographic sort of pandas act on the    *)
(* characters.  An Optional value is a record [some, val].                 *)
(***************************************************************************)
EXTENDS Integers, Sequences, FiniteSets, TLC

(* ------------------------------ bounds -------------------------------- *)

\* SpecIndex: length of the raw variable listing fed to the constructor
MaxVars == 2
\* SpecIndex: variableIds of the listing are 1..MaxVarId
MaxVarId == 2
\* SpecIndex: dimension ids of the listing and of the filters are 1..MaxId
MaxId == 2
\* Spec: batch sizes passed by a direct caller are 1..MaxBatch
MaxBatch == 3

(* --------------------------- Optional values --------------------------- *)

None == [some |-> FALSE, val |-> <<>>]

Some(x) == [some |-> TRUE, val |-> x]

(* ------------------------------ strings -------------------------------- *)

RECURSIVE StrLess(_, _)
\* Python's str < str: lexicographic by code point, a proper prefix is smaller
StrLess(a, b) ==
  IF b = <<>> THEN FALSE
  ELSE IF a = <<>> THEN TRUE
  ELSE IF a[1] # b[1] THEN a[1] < b[1]
  ELSE StrLess(Tail(a), Tail(b))

RECURSIVE Decimal(_)
\* the decimal digits of a natural number, as an f-string formats an int
Decimal(n) ==
  IF n < 10 THEN <<48 + n>> ELSE Decimal(n \div 10) \o <<48 + (n % 10)>>

\* GAS_MAPPING: <<ASCII alias, native subscript name>>
GAS_MAPPING ==
  {    <<<<67, 72, 52>>, <<67, 72, 8324>>>>,   \* CH4
       <<<<67, 79, 50>>, <<67, 79, 8322>>>>,   \* CO2
       <<<<78, 50, 79>>, <<78, 8322, 79>>>>,   \* N2O
       <<<<78, 70, 51>>, <<78, 70, 8323>>>>,   \* NF3
       <<<<83, 70, 54>>, <<83, 70, 8326>>>>,   \* SF6
       <<<<67, 70, 52>>, <<67, 70, 8324>>>>,   \* CF4
       <<<<67, 50, 70, 54>>, <<67, 8322, 70, 8326>>>>,   \* C2F6
       <<<<99, 45, 67, 51, 70, 54>>, <<99, 45, 67, 8323, 70, 8326>>>>,   \* c-C3F6
       <<<<67, 51, 70, 56>>, <<67, 8323, 70, 8328>>>>,   \* C3F8
       <<<<99, 45, 67, 52, 70, 56>>, <<99, 45, 67, 8324, 70, 8328>>>>,   \* c-C4F8
       <<<<67, 52, 70, 49, 48>>, <<67, 8324, 70, 8321, 8320>>>>,   \* C4F10
       <<<<67, 53, 70, 49, 50>>, <<67, 53, 70, 8321, 8322>>>>,   \* C5F12
       <<<<67, 54, 70, 49, 52>>, <<67, 8326, 70, 8321, 8324>>>>,   \* C6F14
       <<<<67, 49, 48, 70, 49, 56>>, <<67, 8321, 8320, 70, 8321, 8328>>>>,   \* C10F18
       <<<<78, 72, 51>>, <<78, 72, 8323>>>>,   \* NH3
       <<<<78, 79, 120>>, <<78, 79, 8339>>>>,   \* NOx
       <<<<83, 79, 50>>, <<83, 79, 8322>>>> }  \* SO2

\* "0123456789x"
NORMALSCRIPT == <<48, 49, 50, 51, 52, 53, 54, 55, 56, 57, 120>>

\* the subscript digits and the subscript x
SUBSCRIPT == <<8320, 8321, 8322, 8323, 8324, 8325, 8326, 8327, 8328, 8329, 8339>>

\* a wrong table: the subscript x is not translated
MAKE_ASCII_NoX(c) ==
  IF \E k \in 1..(Len(SUBSCRIPT) - 1) : SUBSCRIPT[k] = c
  THEN NORMALSCRIPT[CHOOSE k \in 1..(Len(SUBSCRIPT) - 1) : SUBSCRIPT[k] = c]
  ELSE c

\* MAKE_ASCII = str.maketrans(SUBSCRIPT, NORMALSCRIPT), applied to one character
MAKE_ASCII(c) ==
  IF \E k \in 1..Len(SUBSCRIPT) : SUBSCRIPT[k] = c
  THEN NORMALSCRIPT[CHOOSE k \in 1..Len(SUBSCRIPT) : SUBSCRIPT[k] = c]
  ELSE c

\* x.translate(MAKE_ASCII)
Translate(x) == [k \in 1..Len(x) |-> MAKE_ASCII(x[k])]

\* GAS_MAPPING.get(g, g)
GasMappingGet(g) ==
  IF \E e \in GAS_MAPPING : e[1] = g
  THEN (CHOOSE e \in GAS_MAPPING : e[1] = g)[2]
  ELSE g

(* ----------------------- variable index, selection --------------------- *)

\* a wrong grouping: the entry replaces the records of its variableId
GroupVariable_Overwrite(d, var) ==
  [k \in DOMAIN d \cup {var.variableId} |->
     IF k = var.variableId THEN <<var>> ELSE d[k]]

\* one iteration of the grouping loop of __init__
GroupVariable(d, var) ==
  [k \in DOMAIN d \cup {var.variableId} |->
     IF k = var.variableId
     THEN (IF k \in DOMAIN d THEN Append(d[k], var) ELSE <<var>>)
     ELSE d[k]]

RECURSIVE GroupAll(_, _)
\* the grouping loop of __init__ over a whole raw listing
GroupAll(d, listing) ==
  IF listing = <<>> THEN d
  ELSE GroupAll(GroupVariable(d, Head(listing)), Tail(listing))

\* the empty dict
EmptyDict == [k \in {} |-> <<>>]

\* a wrong test: None admits no id
_id_in_NoneMatchesNothing(vid, seq) ==
  seq.some /\ \E k \in 1..Len(seq.val) : seq.val[k] = vid

\* _id_in: seq is None or vid in seq
_id_in(vid, seq) ==
  ~seq.some \/ \E k \in 1..Len(seq.val) : seq.val[k] = vid

RECURSIVE MaskLoop(_, _, _, _)
\* for cid in ids: mask[variables[field] == cid] = True
MaskLoop(mask, vars, field, ids) ==
  IF ids = <<>> THEN mask
  ELSE MaskLoop([k \in 1..Len(vars) |-> mask[k] \/ vars[k][field] = Head(ids)],
                vars, field, Tail(ids))

\* the mask of one dimension: all True for None, else the loop from all False
Mask(vars, field, ids) ==
  IF ~ids.some THEN [k \in 1..Len(vars) |-> TRUE]
  ELSE MaskLoop([k \in 1..Len(vars) |-> FALSE], vars, field, ids.val)

RECURSIVE Unique(_)
\* Series.unique(): the distinct values in order of first appearance
Unique(s) ==
  IF s = <<>> THEN <<>>
  ELSE LET rest == Unique(SelectSeq(Tail(s), LAMBDA x : x # Head(s)))
       IN  <<Head(s)>> \o rest

RECURSIVE MaskedIds(_, _, _)
\* the variableId column of variables[mask], in listing order
MaskedIds(vars, mask, k) ==
  IF k > Len(vars) THEN <<>>
  ELSE (IF mask[k] THEN <<vars[k].variableId>> ELSE <<>>)
         \o MaskedIds(vars, mask, k + 1)

\* a wrong selection: the category mask is left out of the conjunction
_select_variable_ids_NoCategory(vars, classification_ids, category_ids, measure_ids, gas_ids) ==
  LET cm == Mask(vars, "classificationId", classification_ids)
      mm == Mask(vars, "measureId", measure_ids)
      gm == Mask(vars, "gasId", gas_ids)
      all == [k \in 1..Len(vars) |-> cm[k] /\ mm[k] /\ gm[k]]
  IN  Unique(MaskedIds(vars, all, 1))

\* _select_variable_ids
_select_variable_ids(vars, classification_ids, category_ids, measure_ids, gas_ids) ==
  LET classification_mask == Mask(vars, "classificationId", classification_ids)
      category_mask == Mask(vars, "categoryId", category_ids)
      measure_mask == Mask(vars, "measureId", measure_ids)
      gas_mask == Mask(vars, "gasId", gas_ids)
      all == [k \in 1..Len(vars) |->
                classification_mask[k] /\ category_mask[k]
                  /\ measure_mask[k] /\ gas_mask[k]]
  IN  Unique(MaskedIds(vars, all, 1))

(* --------------------- the data loaded by __init__ --------------------- *)

\* the two party categories, one reader each
Readers == {"annexOne", "nonAnnexOne"}

\* party codes: "DEU", "AFG", "TUR"; "ASDF" is in no party table
DEU == <<68, 69, 85>>

AFG == <<65, 70, 71>>

TUR == <<84, 85, 82>>

ASDF == <<65, 83, 68, 70>>

\* self.parties of each reader, indexed by id and sorted; the code "TUR" is
\* listed in both categories
Parties(r) ==
  IF r = "annexOne"
  THEN <<[id |-> 1, code |-> DEU], [id |-> 2, code |-> TUR]>>
  ELSE <<[id |-> 3, code |-> AFG], [id |-> 4, code |-> TUR]>>

\* "Last Inventory Year"
LastInventoryYear == <<76, 97, 115, 116, 32, 73, 110, 118, 101, 110, 116, 111, 114, 121, 32, 89, 101, 97, 114>>

\* self.years: "1990" and "Last Inventory Year (2019)"
Years(r) ==
  <<[id |-> 1, name |-> <<49, 57, 57, 48>>],
    [id |-> 2, name |-> LastInventoryYear \o <<32, 40, 50, 48, 49, 57, 41>>]>>

\* s.startswith(prefix)
StartsWith(s, prefix) ==
  Len(s) >= Len(prefix) /\ SubSeq(s, 1, Len(prefix)) = prefix

\* the year label rule of __init__: a "Last Inventory Year" label becomes s[-5:-1]
YearLabel(s) ==
  IF StartsWith(s, LastInventoryYear)
  THEN SubSeq(s, IF Len(s) >= 5 THEN Len(s) - 4 ELSE 1, Len(s) - 1)
  ELSE s

\* self.classifications: "Total", "Gas"
Classifications(r) ==
  <<[id |-> 1, name |-> <<84, 111, 116, 97, 108>>],
    [id |-> 2, name |-> <<71, 97, 115>>]>>

\* self.gases: "N\u2082O", "CH\u2084", "GHG", "NO\u2093"
Gases(r) ==
  <<[id |-> 1, name |-> <<78, 8322, 79>>],
    [id |-> 2, name |-> <<67, 72, 8324>>],
    [id |-> 3, name |-> <<71, 72, 71>>],
    [id |-> 4, name |-> <<78, 79, 8339>>]>>

\* self.units: "kt", "kt CO\u2082 equivalent"
Units(r) ==
  <<[id |-> 1, name |-> <<107, 116>>],
    [id |-> 2, name |-> <<107, 116, 32, 67, 79, 8322, 32, 101, 113, 117, 105, 118, 97, 108, 101, 110, 116>>]>>

\* self.category_tree as node id -> tag: "Total", "Energy", and a second
\* node tagged "Total" (category names are not unique); no node 9
CategoryTree(r) ==
  (1 :> <<84, 111, 116, 97, 108>>) @@ (2 :> <<69, 110, 101, 114, 103, 121>>)
    @@ (3 :> <<84, 111, 116, 97, 108>>)

\* self.measure_tree as node id -> tag: "Net", "AD"; no node 9
MeasureTree(r) ==
  (1 :> <<78, 101, 116>>) @@ (2 :> <<65, 68>>)

\* dict(df[field]) of a table indexed by id
DictOf(table, field) ==
  [i \in {table[k].id : k \in 1..Len(table)} |->
     (CHOOSE e \in {table[k] : k \in 1..Len(table)} : e.id = i)[field]]

\* self._parties_dict
_parties_dict(r) == DictOf(Parties(r), "code")

\* self._years_dict, with the year label rule applied
_years_dict(r) ==
  LET d == DictOf(Years(r), "name") IN [i \in DOMAIN d |-> YearLabel(d[i])]

\* self._classifications_dict
_classifications_dict(r) == DictOf(Classifications(r), "name")

\* self._gases_dict
_gases_dict(r) == DictOf(Gases(r), "name")

\* self._units_dict
_units_dict(r) == DictOf(Units(r), "name")

\* a variable record of the raw listing
Var(v, cat, cls, meas, gas, unit) ==
  [variableId |-> v, categoryId |-> cat, classificationId |-> cls,
   measureId |-> meas, gasId |-> gas, unitId |-> unit]

\* the raw variable listing each category serves: variableIds shared by
\* records of different categories, two categories with one tag, ids missing
\* from the trees, an exact duplicate entry
VariablesRaw(r) ==
  IF r = "annexOne"
  THEN <<Var(1, 1, 1, 1, 1, 1), Var(1, 2, 1, 1, 1, 1),
         Var(2, 3, 1, 1, 1, 1), Var(3, 9, 2, 9, 2, 2)>>
  ELSE <<Var(1, 1, 1, 2, 2, 1), Var(1, 1, 1, 2, 2, 1),
         Var(2, 2, 2, 1, 3, 2), Var(3, 2, 1, 1, 4, 1)>>

\* a wrong lookup: no KeyError, an id of 0 when no row matches
_name_id_NoRaise(df, name, key) ==
  LET hits == {k \in 1..Len(df) : df[k][key] = name}
  IN  IF hits = {} THEN [ok |-> TRUE, id |-> 0]
      ELSE [ok |-> TRUE, id |-> df[CHOOSE k \in hits : \A j \in hits : k <= j].id]

\* _name_id: the id of the first row whose key column equals name; KeyError
_name_id(df, name, key) ==
  LET hits == {k \in 1..Len(df) : df[k][key] = name}
  IN  IF hits = {} THEN [ok |-> FALSE, id |-> 0]
      ELSE [ok |-> TRUE, id |-> df[CHOOSE k \in hits : \A j \in hits : k <= j].id]

(* ------------------------------ assembly ------------------------------- *)

\* "unknown category nr. "
UnknownCategoryPrefix == <<117, 110, 107, 110, 111, 119, 110, 32, 99, 97, 116, 101, 103, 111, 114, 121, 32, 110, 114, 46, 32>>

\* "unknown measure nr. "
UnknownMeasurePrefix == <<117, 110, 107, 110, 111, 119, 110, 32, 109, 101, 97, 115, 117, 114, 101, 32, 110, 114, 46, 32>>

\* a wrong fallback: the placeholder does not name the id
CategoryLabel_NoId(r, id) ==
  IF id \in DOMAIN CategoryTree(r) THEN CategoryTree(r)[id]
  ELSE UnknownCategoryPrefix

\* category = self.category_tree[id].tag, or the placeholder on NodeIDAbsentError
CategoryLabel(r, id) ==
  IF id \in DOMAIN CategoryTree(r) THEN CategoryTree(r)[id]
  ELSE UnknownCategoryPrefix \o Decimal(id)

\* measure = self.measure_tree[id].tag, or the placeholder on NodeIDAbsentError
MeasureLabel(r, id) ==
  IF id \in DOMAIN MeasureTree(r) THEN MeasureTree(r)[id]
  ELSE UnknownMeasurePrefix \o Decimal(id)

\* the row built for one raw point and one variable record
Row(r, dp, variable) ==
  [party |-> _parties_dict(r)[dp.partyId],
   category |-> CategoryLabel(r, variable.categoryId),
   classification |-> _classifications_dict(r)[variable.classificationId],
   measure |-> MeasureLabel(r, variable.measureId),
   gas |-> _gases_dict(r)[variable.gasId],
   unit |-> _units_dict(r)[variable.unitId],
   year |-> _years_dict(r)[dp.yearId],
   numberValue |-> dp.numberValue,
   stringValue |-> dp.stringValue]

\* a wrong filter: the category filter is not re-applied at assembly
Passes_NoCategory(variable, classification_ids, category_ids, measure_ids, gas_ids) ==
  /\ _id_in(variable.classificationId, classification_ids)
  /\ _id_in(variable.measureId, measure_ids)
  /\ _id_in(variable.gasId, gas_ids)

\* the negation of the `continue` condition of _parse_raw_answer
Passes(variable, classification_ids, category_ids, measure_ids, gas_ids) ==
  /\ _id_in(variable.classificationId, classification_ids)
  /\ _id_in(variable.categoryId, category_ids)
  /\ _id_in(variable.measureId, measure_ids)
  /\ _id_in(variable.gasId, gas_ids)

RECURSIVE RowsOfPoint(_, _, _, _, _, _, _)
\* the inner loop: the rows of one raw point, one per passing variable record
RowsOfPoint(r, dp, recs, classification_ids, category_ids, measure_ids, gas_ids) ==
  IF recs = <<>> THEN <<>>
  ELSE (IF Passes(Head(recs), classification_ids, category_ids, measure_ids, gas_ids)
        THEN <<Row(r, dp, Head(recs))>> ELSE <<>>)
       \o RowsOfPoint(r, dp, Tail(recs), classification_ids, category_ids, measure_ids, gas_ids)

RECURSIVE EmitLoop(_, _, _, _, _, _, _)
\* the outer loop over the raw points, every variableId being a key of dict
EmitLoop(r, dict, raw, classification_ids, category_ids, measure_ids, gas_ids) ==
  IF raw = <<>> THEN <<>>
  ELSE RowsOfPoint(r, Head(raw), dict[Head(raw).variableId],
                   classification_ids, category_ids, measure_ids, gas_ids)
       \o EmitLoop(r, dict, Tail(raw), classification_ids, category_ids, measure_ids, gas_ids)

\* the loops of _parse_raw_answer: [ok, data]; ok is FALSE when a point's
\* variableId is no key of _variables_dict (KeyError), and no frame is built
EmitRows(r, dict, raw, classification_ids, category_ids, measure_ids, gas_ids) ==
  IF \E k \in 1..Len(raw) : raw[k].variableId \notin DOMAIN dict
  THEN [ok |-> FALSE, data |-> <<>>]
  ELSE [ok |-> TRUE,
        data |-> EmitLoop(r, dict, raw, classification_ids, category_ids, measure_ids, gas_ids)]

\* the sort key of a row
SortKey(row) ==
  <<row.party, row.category, row.classification, row.measure, row.gas, row.unit, row.year>>

RECURSIVE KeyLess(_, _)
\* a < b for two sort keys: column by column, strings by code point
KeyLess(a, b) ==
  IF a = <<>> THEN FALSE
  ELSE IF Head(a) # Head(b) THEN StrLess(Head(a), Head(b))
  ELSE KeyLess(Tail(a), Tail(b))

RECURSIVE InsertSorted(_, _)
\* insert a row behind the rows whose key is not greater (a stable sort)
InsertSorted(sorted, row) ==
  IF sorted = <<>> THEN <<row>>
  ELSE IF KeyLess(SortKey(row), SortKey(Head(sorted)))
       THEN <<row>> \o sorted
       ELSE <<Head(sorted)>> \o InsertSorted(Tail(sorted), row)

RECURSIVE SortLoop(_, _)
\* the rows of data inserted one by one into sorted
SortLoop(sorted, data) ==
  IF data = <<>> THEN sorted
  ELSE SortLoop(InsertSorted(sorted, Head(data)), Tail(data))

\* a wrong sort: the rows are left in the order they were emitted
sort_values_Unsorted(data) == data

\* df.sort_values([party, category, classification, measure, gas, unit, year])
sort_values(data) == SortLoop(<<>>, data)

\* df.drop_duplicates(): of rows equal in every column the first is kept
drop_duplicates(rows) == Unique(rows)

\* a wrong normalisation: the gas column is left as it is
NormalizeRow_UnitOnly(row) ==
  [row EXCEPT !.unit = Translate(row.unit)]

\* df[c].apply(lambda x: x.translate(MAKE_ASCII)) for c in ["unit", "gas"]
NormalizeRow(row) ==
  [row EXCEPT !.unit = Translate(row.unit), !.gas = Translate(row.gas)]

(* --------------------------- the remote service ------------------------ *)

\* a raw data point of the remote service
Point(v, p, y, n) ==
  [variableId |-> v, partyId |-> p, yearId |-> y, numberValue |-> n, stringValue |-> <<>>]

\* the remote fixtures: what the service holds under each requested variable
\* id.  "honest" answers with points of the requested ids, "empty" holds
\* nothing, "stray" answers with points of other variableIds (3: not asked
\* for; 7: no key of the index)
Fixtures == {"honest", "empty", "stray"}

\* the store of a fixture, as <<requested variable id, point>> in answer order
RemoteStore(fx) ==
  IF fx = "honest"
  THEN << <<1, Point(1, 1, 1, 10)>>, <<1, Point(1, 1, 2, 10)>>,
          <<2, Point(2, 1, 1, 10)>>, <<2, Point(2, 1, 2, 20)>>,
          <<3, Point(3, 1, 1, 30)>>, <<1, Point(1, 2, 1, 10)>>,
          <<1, Point(1, 3, 1, 5)>>, <<2, Point(2, 3, 2, 6)>>,
          <<2, Point(2, 4, 1, 7)>>, <<3, Point(3, 3, 1, 8)>> >>
  ELSE IF fx = "stray"
  THEN << <<1, Point(3, 1, 1, 30)>>, <<2, Point(2, 1, 2, 20)>>,
          <<3, Point(7, 1, 1, 1)>>, <<1, Point(2, 3, 1, 5)>>,
          <<2, Point(1, 4, 1, 7)>> >>
  ELSE << >>

\* x in seq
InSeq(x, seq) == \E k \in 1..Len(seq) : seq[k] = x

RECURSIVE PointsOf(_, _, _, _)
\* the stored points of one requested variable id for the parties and years asked
PointsOf(store, v, party_ids, year_ids) ==
  IF store = <<>> THEN <<>>
  ELSE (IF Head(store)[1] = v /\ InSeq(Head(store)[2].partyId, party_ids)
             /\ InSeq(Head(store)[2].yearId, year_ids)
        THEN <<Head(store)[2]>> ELSE <<>>)
       \o PointsOf(Tail(store), v, party_ids, year_ids)

RECURSIVE AnswerLoop(_, _, _, _)
\* the points of each id of a list, in the order of the list
AnswerLoop(fx, variable_ids, party_ids, year_ids) ==
  IF variable_ids = <<>> THEN <<>>
  ELSE PointsOf(RemoteStore(fx), Head(variable_ids), party_ids, year_ids)
       \o AnswerLoop(fx, Tail(variable_ids), party_ids, year_ids)

\* the deterministic remote: the points of each requested id, in request
\* order; the ids the store holds nothing under add nothing
RemoteAnswer(fx, variable_ids, party_ids, year_ids) ==
  AnswerLoop(fx, SelectSeq(variable_ids, LAMBDA v : \E k \in 1..Len(RemoteStore(fx)) :
                                                     RemoteStore(fx)[k][1] = v),
             party_ids, year_ids)

\* _post("records/flexible-queries", json) when the transport succeeds
_post(fx, json) == RemoteAnswer(fx, json.variableIds, json.partyIds, json.yearIds)

(* -------------------------------- state -------------------------------- *)

VARIABLES
  variables,          \* per reader: self.variables, the raw listing in order
  _variables_dict,    \* per reader: variableId -> the records sharing it
  fixture,            \* which remote fixture answers the requests
  pc,                 \* "init", "idle", "selected", "loop", "waiting", "done", "failed";
                      \* "frame", "normalized", "mapped" in SpecGas
  facade_call,        \* the arguments of UNFCCCApiReader.query, once called
  queries,            \* per reader: the arguments of every query it received
  reader,             \* the reader whose query is running
  args,               \* the arguments of the running query
  gases,              \* the gases argument after the alias mapping
  party_ids, year_ids, classification_ids, gas_ids, variable_ids,
  i, raw_response,    \* the loop variables of query
  posts,              \* the json payloads handed to _post, in order
  pbar,               \* the arguments of pbar.update, in order
  warnings,           \* the number of logging.warning calls
  data,               \* the rows _parse_raw_answer appended, in order
  parsed,             \* the frame _parse_raw_answer returns
  df,                 \* the frame query returns
  error,              \* the exception that ended the query, "" if none
  error_args          \* the arguments NoDataError was raised with

vars ==
  <<variables, _variables_dict, fixture, pc, facade_call, queries, reader, args,
    gases, party_ids, year_ids, classification_ids, gas_ids, variable_ids, i,
    raw_response, posts, pbar, warnings, data, parsed, df, error, error_args>>

\* batch_size: int = 1000
DefaultBatchSize == 1000

\* len(variable_ids) > 3000 in _flexible_query
WarnThreshold == 3000

\* the defaults of query's keyword arguments
DefaultArgs ==
  [party_codes |-> <<>>, category_ids |-> None, classifications |-> None,
   measure_ids |-> None, gases |-> None, batch_size |-> DefaultBatchSize,
   progress |-> FALSE, normalize_gas_names |-> TRUE]

\* the arguments of NoDataError before any was raised
NoErrorArgs ==
  [party_codes |-> <<>>, category_ids |-> None, classifications |-> None,
   measure_ids |-> None, gases |-> None]

\* the query's locals and outputs before a query runs
QueryIdle ==
  /\ facade_call = None
  /\ queries = [r \in Readers |-> <<>>]
  /\ reader = "none"
  /\ args = DefaultArgs
  /\ gases = None
  /\ party_ids = <<>> /\ year_ids = <<>>
  /\ classification_ids = None /\ gas_ids = None
  /\ variable_ids = <<>>
  /\ i = 0 /\ raw_response = <<>>
  /\ posts = <<>> /\ pbar = <<>> /\ warnings = 0
  /\ data = <<>> /\ parsed = <<>> /\ df = <<>>
  /\ error = "" /\ error_args = NoErrorArgs

\* both readers constructed from the listings their category serves
Init ==
  /\ variables = [r \in Readers |-> VariablesRaw(r)]
  /\ _variables_dict = [r \in Readers |-> GroupAll(EmptyDict, VariablesRaw(r))]
  /\ fixture \in Fixtures
  /\ pc = "idle"
  /\ QueryIdle

(* ------------------------------- inputs -------------------------------- *)

\* "N2O", "N\u2082O", "CH4", "NOx", "XYZ"
N2O == <<78, 50, 79>>

N2O_native == <<78, 8322, 79>>

CH4 == <<67, 72, 52>>

NOx == <<78, 79, 120>>

XYZ == <<88, 89, 90>>

\* the party_codes a direct caller passes
PartyCodeLists == {<<DEU>>, <<AFG>>, <<DEU, TUR>>, <<DEU, ASDF>>}

\* the category_ids a direct caller passes
CategoryIdLists == {None, Some(<<1>>), Some(<<2>>), Some(<<9>>), Some(<<1, 3>>)}

\* the classifications a direct caller passes: "Total", "bogus"
ClassificationLists ==
  {None, Some(<< <<84, 111, 116, 97, 108>> >>), Some(<< <<98, 111, 103, 117, 115>> >>)}

\* the measure_ids a direct caller passes
MeasureIdLists == {None, Some(<<1>>), Some(<<9>>)}

\* the gases a caller passes
GasLists ==
  {None, Some(<<N2O>>), Some(<<N2O_native>>), Some(<<CH4>>), Some(<<NOx>>), Some(<<XYZ>>)}

\* the party_code a caller of the facade passes
PartyCodes == {DEU, AFG, TUR, ASDF}

(* ------------------------------- actions ------------------------------- *)

\* the id column of a list of _name_id results
IdsOf(s) == [k \in 1..Len(s) |-> s[k].id]

\* whether every _name_id of a list returned
AllOk(s) == \A k \in 1..Len(s) : s[k].ok

\* the variables a query that raises before the loop leaves alone
loopVars ==
  <<party_ids, year_ids, classification_ids, gas_ids, variable_ids, i,
    raw_response, posts, pbar, warnings, data, parsed, df, error_args>>

\* UNFCCCSingleCategoryApiReader.query up to the loop: alias mapping, party,
\* classification and gas resolution, variable selection
query(r, a) ==
  LET mapped == IF a.gases.some
                THEN Some([k \in 1..Len(a.gases.val) |-> GasMappingGet(a.gases.val[k])])
                ELSE None
      pids == [k \in 1..Len(a.party_codes) |->
                 _name_id(Parties(r), a.party_codes[k], "code")]
      cids == IF a.classifications.some
              THEN [k \in 1..Len(a.classifications.val) |->
                      _name_id(Classifications(r), a.classifications.val[k], "name")]
              ELSE <<>>
      gids == IF mapped.some
              THEN [k \in 1..Len(mapped.val) |-> _name_id(Gases(r), mapped.val[k], "name")]
              ELSE <<>>
      cls_ids == IF a.classifications.some THEN Some(IdsOf(cids)) ELSE None
      g_ids == IF mapped.some THEN Some(IdsOf(gids)) ELSE None
  IN  /\ pc = "idle"
      /\ reader' = r
      /\ args' = a
      /\ queries' = [queries EXCEPT ![r] = Append(@, a)]
      /\ gases' = mapped
      /\ UNCHANGED <<variables, _variables_dict, fixture>>
      /\ IF ~AllOk(pids)
         THEN /\ pc' = "failed" /\ error' = "ValueError: Unknown party"
              /\ UNCHANGED loopVars
         ELSE IF ~AllOk(cids) \/ ~AllOk(gids)
         THEN /\ pc' = "failed" /\ error' = "KeyError: name"
              /\ party_ids' = IdsOf(pids)
              /\ year_ids' = IdsOf(Years(r))
              /\ UNCHANGED <<classification_ids, gas_ids, variable_ids, i,
                             raw_response, posts, pbar, warnings, data, parsed,
                             df, error_args>>
         ELSE /\ pc' = "loop" /\ error' = ""
              /\ party_ids' = IdsOf(pids)
              /\ year_ids' = IdsOf(Years(r))
              /\ classification_ids' = cls_ids
              /\ gas_ids' = g_ids
              /\ variable_ids' = _select_variable_ids(variables[r], cls_ids,
                                                      a.category_ids, a.measure_ids, g_ids)
              /\ i' = 0 /\ raw_response' = <<>>
              /\ UNCHANGED <<posts, pbar, warnings, data, parsed, df, error_args>>

\* a direct call of a single-category reader's query
ReaderQuery ==
  /\ pc = "idle"
  /\ \E r \in Readers, pcs \in PartyCodeLists, cat \in CategoryIdLists,
        cls \in ClassificationLists, meas \in MeasureIdLists, g \in GasLists,
        b \in 1..MaxBatch, progress \in BOOLEAN, normalize \in BOOLEAN :
       /\ query(r, [party_codes |-> pcs, category_ids |-> cat, classifications |-> cls,
                    measure_ids |-> meas, gases |-> g, batch_size |-> b,
                    progress |-> progress, normalize_gas_names |-> normalize])
       /\ UNCHANGED facade_call

\* the code column of a reader's parties
Codes(r) == {Parties(r)[k].code : k \in 1..Len(Parties(r))}

\* a wrong dispatch: the nonAnnexOne reader is asked first
SelectReader_NonAnnexFirst(party_code) ==
  IF party_code \in Codes("nonAnnexOne") THEN "nonAnnexOne"
  ELSE IF party_code \in Codes("annexOne") THEN "annexOne"
  ELSE "none"

\* "select corresponding reader" of UNFCCCApiReader.query
SelectReader(party_code) ==
  IF party_code \in Codes("annexOne") THEN "annexOne"
  ELSE IF party_code \in Codes("nonAnnexOne") THEN "nonAnnexOne"
  ELSE "none"

\* UNFCCCApiReader.query
FacadeQuery ==
  /\ pc = "idle"
  /\ \E party_code \in PartyCodes, g \in GasLists, progress \in BOOLEAN,
        normalize \in BOOLEAN :
    /\ facade_call' = Some([party_code |-> party_code, gases |-> g,
                            progress |-> progress, normalize_gas_names |-> normalize])
    /\ IF SelectReader(party_code) = "none"
       THEN /\ pc' = "failed" /\ error' = "ValueError: Unknown party"
            /\ UNCHANGED <<variables, _variables_dict, fixture, queries, reader,
                           args, gases>>
            /\ UNCHANGED loopVars
       ELSE query(SelectReader(party_code),
                  [DefaultArgs EXCEPT !.party_codes = <<party_code>>, !.gases = g,
                                      !.progress = progress,
                                      !.normalize_gas_names = normalize])

\* min(a, b)
Min(a, b) == IF a < b THEN a ELSE b

\* a wrong slice: variable_ids[i + 1 : i + batch_size]
Batch_OffByOne(ids, from, size) == SubSeq(ids, from + 2, Min(from + size, Len(ids)))

\* variable_ids[i : i + batch_size]
Batch(ids, from, size) == SubSeq(ids, from + 1, Min(from + size, Len(ids)))

\* a wrong step: i += 1
Advance_ByOne(from, size) == from + 1

\* i += batch_size
Advance(from, size) == from + size

\* one iteration of the loop up to the request: the slice, i += batch_size,
\* the warning of _flexible_query, the payload handed to _post
Submit ==
  /\ pc = "loop"
  /\ i < Len(variable_ids)
  /\ LET batched_variable_ids == Batch(variable_ids, i, args.batch_size)
     IN  /\ i' = Advance(i, args.batch_size)
         /\ warnings' = IF Len(batched_variable_ids) > WarnThreshold
                         THEN warnings + 1 ELSE warnings
         /\ posts' = Append(posts, [variableIds |-> batched_variable_ids,
                                     partyIds |-> party_ids, yearIds |-> year_ids])
  /\ pc' = "waiting"
  /\ UNCHANGED <<variables, _variables_dict, fixture, facade_call, queries, reader,
                 args, gases, party_ids, year_ids, classification_ids, gas_ids,
                 variable_ids, raw_response, pbar, data, parsed, df, error, error_args>>

RECURSIVE Sum(_)
\* the sum of a sequence of numbers: the counter of a progress bar after
\* the updates of the sequence
Sum(s) == IF s = <<>> THEN 0 ELSE Head(s) + Sum(Tail(s))

\* a wrong update: the bar is given the count of all ids processed so far
pbar_update_Cumulative(bar, batched_variable_ids) ==
  Append(bar, Sum(bar) + Len(batched_variable_ids))

\* pbar.update(len(batched_variable_ids))
pbar_update(bar, batched_variable_ids) == Append(bar, Len(batched_variable_ids))

\* the rest of the iteration: the response is appended, the progress bar updated
Receive ==
  /\ pc = "waiting"
  /\ raw_response' = raw_response \o _post(fixture, posts[Len(posts)])
  /\ pbar' = IF args.progress
             THEN pbar_update(pbar, posts[Len(posts)].variableIds) ELSE pbar
  /\ pc' = "loop"
  /\ UNCHANGED <<variables, _variables_dict, fixture, facade_call, queries, reader,
                 args, gases, party_ids, year_ids, classification_ids, gas_ids,
                 variable_ids, i, posts, warnings, data, parsed, df, error, error_args>>

\* a wrong handling: the exception is noted and the loop goes on
TransportFailure_Swallowed ==
  /\ pc = "waiting"
  /\ pc' = "loop"
  /\ error' = "HTTPError"
  /\ UNCHANGED <<variables, _variables_dict, fixture, facade_call, queries, reader,
                 args, gases, party_ids, year_ids, classification_ids, gas_ids,
                 variable_ids, i, raw_response, posts, pbar, warnings, data, parsed,
                 df, error_args>>

\* resp.raise_for_status() raises: the exception leaves query
TransportFailure ==
  /\ pc = "waiting"
  /\ pc' = "failed"
  /\ error' = "HTTPError"
  /\ UNCHANGED <<variables, _variables_dict, fixture, facade_call, queries, reader,
                 args, gases, party_ids, year_ids, classification_ids, gas_ids,
                 variable_ids, i, raw_response, posts, pbar, warnings, data, parsed,
                 df, error_args>>

\* the frame of _parse_raw_answer: sorted, duplicates dropped
Frame(rows) == drop_duplicates(sort_values(rows))

\* the normalisation of query applied to every row when asked for
Normalized(rows, normalize) ==
  IF normalize THEN [k \in 1..Len(rows) |-> NormalizeRow(rows[k])] ELSE rows

\* query after the loop: NoDataError on an empty raw response, else
\* _parse_raw_answer and the normalisation.  A raw point whose variableId is
\* no key of _variables_dict raises KeyError; with no row appended the frame
\* has no columns and sort_values raises KeyError('party')
Finish ==
  /\ pc = "loop"
  /\ i >= Len(variable_ids)
  /\ LET e == EmitRows(reader, _variables_dict[reader], raw_response,
                       classification_ids, args.category_ids, args.measure_ids, gas_ids)
     IN  IF raw_response = <<>>
         THEN /\ pc' = "failed" /\ error' = "NoDataError"
              /\ error_args' = [party_codes |-> args.party_codes,
                                 category_ids |-> args.category_ids,
                                 classifications |-> args.classifications,
                                 measure_ids |-> args.measure_ids,
                                 gases |-> gases]
              /\ UNCHANGED <<data, parsed, df>>
         ELSE IF ~e.ok
         THEN /\ pc' = "failed" /\ error' = "KeyError: variableId"
              /\ UNCHANGED <<data, parsed, df, error_args>>
         ELSE IF e.data = <<>>
         THEN /\ pc' = "failed" /\ error' = "KeyError: party"
              /\ UNCHANGED <<data, parsed, df, error_args>>
         ELSE /\ pc' = "done"
              /\ data' = e.data
              /\ parsed' = Frame(e.data)
              /\ df' = Normalized(Frame(e.data), args.normalize_gas_names)
              /\ UNCHANGED <<error, error_args>>
  /\ UNCHANGED <<variables, _variables_dict, fixture, facade_call, queries, reader,
                 args, gases, party_ids, year_ids, classification_ids, gas_ids,
                 variable_ids, i, raw_response, posts, pbar, warnings>>

Next == ReaderQuery \/ FacadeQuery \/ Submit \/ Receive \/ TransportFailure \/ Finish

Spec == Init /\ [][Next]_vars

\* the loop condition i < len(variable_ids) is false and the statements
\* after the loop run: the steps of Finish, told by pc alone
ExitLoop ==
  /\ pc = "loop"
  /\ i >= Len(variable_ids)
  /\ pc' \in {"done", "failed"}

\* the steps of a running query are taken: the interpreter runs the next
\* statement, and a request that was sent returns or raises.  In a
\* behaviour of Spec the ExitLoop steps are the Finish steps and ExitLoop
\* is enabled where Finish is
Fairness ==
  /\ WF_vars(Submit)
  /\ WF_vars(Receive \/ TransportFailure)
  /\ WF_pc(ExitLoop)

SpecLive == Spec /\ Fairness

(* -------------- construction and selection on any listing -------------- *)

\* the variable records a raw listing may hold
VarDomain ==
  {Var(v, cat, cls, meas, gas, 1) :
     v \in 1..MaxVarId, cat \in 1..MaxId, cls \in 1..MaxId,
     meas \in 1..MaxId, gas \in 1..MaxId}

RECURSIVE SetToSeq(_)
\* the elements of a set of numbers in ascending order
SetToSeq(S) ==
  IF S = {} THEN <<>>
  ELSE LET m == CHOOSE x \in S : \A y \in S : x <= y
       IN  <<m>> \o SetToSeq(S \ {m})

\* the id filters a caller of _select_variable_ids passes: None or a list
IdFilters == {None} \cup {Some(SetToSeq(S)) : S \in SUBSET (1..MaxId)}

\* a reader under construction: no variable read yet
InitIndex ==
  /\ variables = [r \in Readers |-> <<>>]
  /\ _variables_dict = [r \in Readers |-> EmptyDict]
  /\ fixture = "empty"
  /\ pc = "init"
  /\ QueryIdle

\* the variables of a query, which construction and selection leave alone
queryVars ==
  <<fixture, facade_call, queries, gases, party_ids, year_ids, i, raw_response,
    posts, pbar, warnings, data, parsed, df, error, error_args>>

\* __init__ reads one more entry of variables_raw: it is a row of
\* self.variables and is grouped under its variableId
LoadVariable ==
  /\ pc = "init"
  /\ Len(variables["annexOne"]) < MaxVars
  /\ \E var \in VarDomain :
       /\ variables' = [variables EXCEPT !["annexOne"] = Append(@, var)]
       /\ _variables_dict' =
            [_variables_dict EXCEPT !["annexOne"] = GroupVariable(@, var)]
  /\ UNCHANGED <<pc, reader, args, classification_ids, gas_ids, variable_ids>>
  /\ UNCHANGED queryVars

\* __init__ returns
Constructed ==
  /\ pc = "init"
  /\ pc' = "idle"
  /\ reader' = "annexOne"
  /\ UNCHANGED <<variables, _variables_dict, args, classification_ids, gas_ids,
                 variable_ids>>
  /\ UNCHANGED queryVars

\* a call of _select_variable_ids on the constructed reader
SelectVariableIds ==
  /\ pc = "idle"
  /\ \E cls \in IdFilters, cat \in IdFilters, meas \in IdFilters, gas \in IdFilters :
       /\ args' = [args EXCEPT !.category_ids = cat, !.measure_ids = meas]
       /\ classification_ids' = cls
       /\ gas_ids' = gas
       /\ variable_ids' = _select_variable_ids(variables[reader], cls, cat, meas, gas)
  /\ pc' = "selected"
  /\ UNCHANGED <<variables, _variables_dict, reader>>
  /\ UNCHANGED queryVars

NextIndex == LoadVariable \/ Constructed \/ SelectVariableIds

SpecIndex == InitIndex /\ [][NextIndex]_vars

(* ------------- gas names through normalisation and aliasing ------------ *)

\* SpecGas: length of the gas column of the frame to be normalised
MaxGases == 2

\* the gas names a frame may hold: the native names and the aliases of
\* GAS_MAPPING, and a name of no entry
GasNames == {e[1] : e \in GAS_MAPPING} \cup {e[2] : e \in GAS_MAPPING} \cup {XYZ}

\* the gas columns of a frame
GasColumns == UNION {[1..n -> GasNames] : n \in 1..MaxGases}

\* a row of a frame whose gas is g
GasRow(g) ==
  [party |-> DEU, category |-> <<>>, classification |-> <<>>, measure |-> <<>>,
   gas |-> g, unit |-> _units_dict("annexOne")[1], year |-> <<>>,
   numberValue |-> 0, stringValue |-> <<>>]

\* a frame as _parse_raw_answer returns it, with any gas column
InitGas ==
  /\ variables = [r \in Readers |-> VariablesRaw(r)]
  /\ _variables_dict = [r \in Readers |-> GroupAll(EmptyDict, VariablesRaw(r))]
  /\ fixture = "empty"
  /\ pc = "frame"
  /\ facade_call = None
  /\ queries = [r \in Readers |-> <<>>]
  /\ reader = "annexOne"
  /\ args = DefaultArgs
  /\ gases = None
  /\ party_ids = <<>> /\ year_ids = <<>>
  /\ classification_ids = None /\ gas_ids = None
  /\ variable_ids = <<>>
  /\ i = 0 /\ raw_response = <<>>
  /\ posts = <<>> /\ pbar = <<>> /\ warnings = 0
  /\ data = <<>>
  /\ parsed \in {[k \in 1..Len(col) |-> GasRow(col[k])] : col \in GasColumns}
  /\ df = <<>>
  /\ error = "" /\ error_args = NoErrorArgs

\* the end of query: the unit and gas columns are translated with MAKE_ASCII
NormalizeFrame ==
  /\ pc = "frame"
  /\ df' = Normalized(parsed, TRUE)
  /\ pc' = "normalized"
  /\ UNCHANGED <<variables, _variables_dict, fixture, facade_call, queries, reader,
                 args, gases, party_ids, year_ids, classification_ids, gas_ids,
                 variable_ids, i, raw_response, posts, pbar, warnings, data, parsed,
                 error, error_args>>

\* the start of a query whose gases are the gas column of the normalised
\* frame: gases = [GAS_MAPPING.get(g, g) for g in gases]
MapAliases ==
  /\ pc = "normalized"
  /\ LET column == [k \in 1..Len(df) |-> df[k].gas]
     IN  /\ args' = [args EXCEPT !.gases = Some(column)]
         /\ gases' = Some([k \in 1..Len(column) |-> GasMappingGet(column[k])])
  /\ pc' = "mapped"
  /\ UNCHANGED <<variables, _variables_dict, fixture, facade_call, queries, reader,
                 party_ids, year_ids, classification_ids, gas_ids, variable_ids, i,
                 raw_response, posts, pbar, warnings, data, parsed, df, error,
                 error_args>>

NextGas == NormalizeFrame \/ MapAliases

SpecGas == InitGas /\ [][NextGas]_vars

(* ------------------ the loop on a selection of thousands --------------- *)

\* SpecWarn: the selections have WarnThreshold - MaxExcess .. WarnThreshold + MaxExcess ids
MaxExcess == 2

\* the sizes of the selections
LargeSizes == (WarnThreshold - MaxExcess)..(WarnThreshold + MaxExcess)

\* the batch sizes of the queries on them: the default, and sizes at and
\* above the threshold of the warning
LargeBatchSizes ==
  {DefaultBatchSize, WarnThreshold, WarnThreshold + 1, 2 * WarnThreshold}

\* a listing of n variables with the variableIds 1..n
LargeListing(n) == [k \in 1..n |-> Var(k, 1, 1, 1, 1, 1)]

\* a query of the annexOne reader for one party and no filter, at the
\* entry of its loop: every variable id of a listing of n variables is selected
InitWarn ==
  \E n \in LargeSizes, b \in LargeBatchSizes :
    LET a == [DefaultArgs EXCEPT !.party_codes = <<DEU>>, !.batch_size = b]
    IN  /\ variables = [r \in Readers |->
                          IF r = "annexOne" THEN LargeListing(n) ELSE VariablesRaw(r)]
        /\ _variables_dict =
             [r \in Readers |->
                IF r = "annexOne" THEN [k \in 1..n |-> <<LargeListing(n)[k]>>]
                ELSE GroupAll(EmptyDict, VariablesRaw(r))]
        /\ fixture \in {"honest", "empty"}
        /\ pc = "loop"
        /\ facade_call = None
        /\ queries = [r \in Readers |-> IF r = "annexOne" THEN <<a>> ELSE <<>>]
        /\ reader = "annexOne"
        /\ args = a
        /\ gases = None
        /\ party_ids = <<_name_id(Parties("annexOne"), DEU, "code").id>>
        /\ year_ids = IdsOf(Years("annexOne"))
        /\ classification_ids = None /\ gas_ids = None
        /\ variable_ids = [k \in 1..n |-> k]
        /\ i = 0 /\ raw_response = <<>>
        /\ posts = <<>> /\ pbar = <<>> /\ warnings = 0
        /\ data = <<>> /\ parsed = <<>> /\ df = <<>>
        /\ error = "" /\ error_args = NoErrorArgs

NextWarn == Submit \/ Receive \/ TransportFailure \/ Finish

SpecWarn == InitWarn /\ [][NextWarn]_vars

(* ------------------------------ properties ----------------------------- *)

\* the elements of a sequence
Range(seq) == {seq[k] : k \in 1..Len(seq)}

\* a filter admits a value: it is None, or the value is in its list
FilterAdmits(f, x) == ~f.some \/ x \in Range(f.val)

\* a variable record matches the four filters of the running query
Matching(rec) ==
  /\ FilterAdmits(classification_ids, rec.classificationId)
  /\ FilterAdmits(args.category_ids, rec.categoryId)
  /\ FilterAdmits(args.measure_ids, rec.measureId)
  /\ FilterAdmits(gas_ids, rec.gasId)

\* the loop of query has run to its end and the code after it has run
LoopFinished ==
  \/ pc = "done"
  \/ pc = "failed" /\ error \in {"NoDataError", "KeyError: variableId", "KeyError: party"}

\* every raw point's variableId is a key of the running reader's index
RawKnown ==
  \A k \in 1..Len(raw_response) :
     raw_response[k].variableId \in DOMAIN _variables_dict[reader]

\* the pairs <<k, j>> of a raw point and a matching record sharing its variableId
PassingPairs ==
  {<<k, j>> \in (1..Len(raw_response)) \X (1..Len(variables[reader])) :
     /\ raw_response[k].variableId \in DOMAIN _variables_dict[reader]
     /\ j <= Len(_variables_dict[reader][raw_response[k].variableId])
     /\ Matching(_variables_dict[reader][raw_response[k].variableId][j])}

\* the row of a pair
PairRow(pair) ==
  Row(reader, raw_response[pair[1]],
      _variables_dict[reader][raw_response[pair[1]].variableId][pair[2]])

\* C1: after _select_variable_ids, the ids returned are exactly the
\* variableIds of the records matching all four filters (None matches every
\* value, a list matches the values in it), no id is returned twice, and
\* with four None filters they are all the variableIds of the index
C1_SelectSoundComplete ==
  pc = "selected" =>
    LET vs == variables[reader]
    IN  /\ Range(variable_ids)
             = {vs[k].variableId : k \in {m \in 1..Len(vs) : Matching(vs[m])}}
        /\ \A j, k \in 1..Len(variable_ids) :
              j # k => variable_ids[j] # variable_ids[k]
        /\ (~classification_ids.some /\ ~args.category_ids.some
               /\ ~args.measure_ids.some /\ ~gas_ids.some)
             => Range(variable_ids) = {vs[k].variableId : k \in 1..Len(vs)}

\* C1 witness: two records share a variableId, both match a category filter
\* that is a list, a third value is filtered out by the gas filter
C1_Witness ==
  /\ pc = "selected"
  /\ Len(variables[reader]) = 2
  /\ variables[reader][1].variableId = variables[reader][2].variableId
  /\ variables[reader][1] # variables[reader][2]
  /\ args.category_ids = Some(<<1, 2>>)
  /\ gas_ids = Some(<<1>>)
  /\ Matching(variables[reader][1]) /\ Matching(variables[reader][2])
  /\ Len(variable_ids) = 1

\* C2: _parse_raw_answer appends exactly one row for each pair of a raw
\* point and a record sharing its variableId that matches all four filters,
\* and none for a record failing a filter; with a single category id in the
\* filter every row carries that category's label
C2_OneRowPerPassingPair ==
  (pc = "done" \/ (pc = "failed" /\ error = "KeyError: party")) =>
    /\ Len(data) = Cardinality(PassingPairs)
    /\ \A pair \in PassingPairs : PairRow(pair) \in Range(data)
    /\ \A row \in Range(data) : \E pair \in PassingPairs : row = PairRow(pair)
    /\ (args.category_ids.some /\ Len(args.category_ids.val) = 1)
         => \A row \in Range(data) :
               row.category = CategoryLabel(reader, args.category_ids.val[1])

\* C2 witness: a point whose variableId has records of two categories, a
\* query for one of the two, rows emitted
C2_Witness ==
  /\ pc = "done"
  /\ args.category_ids = Some(<<2>>)
  /\ data # <<>>
  /\ \E k \in 1..Len(raw_response) :
       \E a, b \in Range(_variables_dict[reader][raw_response[k].variableId]) :
          a.categoryId = 2 /\ b.categoryId # 2 /\ ~Matching(b)

\* C3: whatever the batch size, the raw response accumulated by the loop is
\* the remote's answer to the whole id list in one request, and the table
\* returned is the one assembled from that answer
C3_BatchingTransparent ==
  ((pc = "loop" /\ i >= Len(variable_ids)) \/ LoopFinished) =>
    LET whole == _post(fixture, [variableIds |-> variable_ids,
                                 partyIds |-> party_ids, yearIds |-> year_ids])
    IN  /\ raw_response = whole
        /\ pc = "done" =>
             df = Normalized(Frame(EmitRows(reader, _variables_dict[reader], whole,
                                            classification_ids, args.category_ids,
                                            args.measure_ids, gas_ids).data),
                             args.normalize_gas_names)

\* C3 witness: three ids fetched in two batches of unequal size, with points
C3_Witness ==
  /\ pc = "done"
  /\ Len(variable_ids) = 3
  /\ args.batch_size = 2
  /\ Len(posts) = 2
  /\ Len(posts[2].variableIds) = 1
  /\ raw_response # <<>>

\* rows in ascending order of the sort key
SortedByKey(rows) ==
  \A j, k \in 1..Len(rows) :
     j < k => ~KeyLess(SortKey(rows[k]), SortKey(rows[j]))

\* C4 as claimed: the frame returned by _parse_raw_answer is sorted by the
\* key and no two of its rows agree on all seven key columns
C4_SortedNoDuplicateKeys ==
  pc = "done" =>
    /\ SortedByKey(parsed)
    /\ \A j, k \in 1..Len(parsed) :
          j # k => SortKey(parsed[j]) # SortKey(parsed[k])

\* C4 as amended: the frame returned by _parse_raw_answer is sorted
\* ascending by the key and no two of its rows are equal in all nine columns
C4_SortedNoDuplicateRows ==
  pc = "done" =>
    /\ SortedByKey(parsed)
    /\ \A j, k \in 1..Len(parsed) : j # k => parsed[j] # parsed[k]

\* C4 witness: rows were emitted out of order, an exact duplicate was
\* dropped, and two rows that differ only in numberValue were both kept
C4_Witness ==
  /\ pc = "done"
  /\ ~SortedByKey(data)
  /\ Len(parsed) < Len(data)
  /\ \E j, k \in 1..Len(parsed) :
       j # k /\ SortKey(parsed[j]) = SortKey(parsed[k])

\* the fully batched query assembles zero rows
ZeroRows ==
  /\ LoopFinished
  /\ RawKnown
  /\ PassingPairs = {}

\* C5: whenever the fully filtered, fully batched query yields zero rows it
\* fails with NoDataError
C5_ZeroRowsRaiseNoDataError ==
  ZeroRows => (pc = "failed" /\ error = "NoDataError")

\* the party codes no child reader owns
UnownedCodes == {c \in PartyCodes : \A r \in Readers : c \notin Codes(r)}

\* C6: a query for an unregistered party code fails with the unknown-party
\* error and hands no payload to _post, through the facade and through a
\* single-category reader, whatever the other arguments are
C6_UnknownPartyNoPost ==
  /\ (facade_call.some /\ facade_call.val.party_code \in UnownedCodes)
       => (pc = "failed" /\ error = "ValueError: Unknown party" /\ posts = <<>>)
  /\ (reader # "none" /\ \E c \in Range(args.party_codes) : c \notin Codes(reader))
       => (pc = "failed" /\ error = "ValueError: Unknown party" /\ posts = <<>>)

\* C6 witness: a single-category query with a known and an unknown code and
\* other filters set has failed
C6_Witness ==
  /\ pc = "failed"
  /\ reader = "annexOne"
  /\ args.party_codes = <<DEU, ASDF>>
  /\ args.category_ids = Some(<<1>>)
  /\ args.gases = Some(<<N2O>>)
  /\ error = "ValueError: Unknown party"

\* C7: for a party code some child owns, the facade delegates exactly once,
\* to the annexOne child if it owns the code and else to the nonAnnexOne
\* child, with the code in a one-element list and the caller's gases,
\* progress and normalize_gas_names; the other child receives no query
C7_FacadeDispatch ==
  (facade_call.some /\ facade_call.val.party_code \notin UnownedCodes) =>
    LET c == facade_call.val
        owner == IF c.party_code \in Codes("annexOne") THEN "annexOne" ELSE "nonAnnexOne"
    IN  /\ reader = owner
        /\ Len(queries[owner]) = 1
        /\ queries[owner][1].party_codes = <<c.party_code>>
        /\ queries[owner][1].gases = c.gases
        /\ queries[owner][1].progress = c.progress
        /\ queries[owner][1].normalize_gas_names = c.normalize_gas_names
        /\ \A r \in Readers \ {owner} : queries[r] = <<>>

\* C7 witness: a party of the nonAnnexOne category only, served to the end
C7_Witness ==
  /\ pc = "done"
  /\ facade_call.some
  /\ facade_call.val.party_code = AFG
  /\ reader = "nonAnnexOne"
  /\ df # <<>>

\* C8: a matching record whose category id (measure id) is no node of the
\* tree does not abort the query: its row is in the table with the label
\* "unknown category nr. {id}" ("unknown measure nr. {id}")
C8_UnknownNodePlaceholder ==
  (LoopFinished /\ RawKnown) =>
    \A pair \in PassingPairs :
       LET dp == raw_response[pair[1]]
           rec == _variables_dict[reader][dp.variableId][pair[2]]
       IN  /\ rec.categoryId \notin DOMAIN CategoryTree(reader) =>
                /\ pc = "done"
                /\ \E row \in Range(parsed) :
                      /\ row.category = UnknownCategoryPrefix \o Decimal(rec.categoryId)
                      /\ row.party = _parties_dict(reader)[dp.partyId]
                      /\ row.numberValue = dp.numberValue
           /\ rec.measureId \notin DOMAIN MeasureTree(reader) =>
                /\ pc = "done"
                /\ \E row \in Range(parsed) :
                      /\ row.measure = UnknownMeasurePrefix \o Decimal(rec.measureId)
                      /\ row.party = _parties_dict(reader)[dp.partyId]
                      /\ row.numberValue = dp.numberValue

\* C8 witness: a returned table with a row labelled "unknown category nr. 9"
C8_Witness ==
  /\ pc = "done"
  /\ \E row \in Range(df) :
       /\ row.category = UnknownCategoryPrefix \o <<57>>
       /\ row.measure = UnknownMeasurePrefix \o <<57>>

\* the names of a dimension table
Names(table) == {table[k].name : k \in 1..Len(table)}

\* some classification name, or some gas name after the alias mapping, of
\* the running query is the name of no dimension entry
UnknownName ==
  /\ reader # "none"
  /\ \/ args.classifications.some
        /\ \E n \in Range(args.classifications.val) : n \notin Names(Classifications(reader))
     \/ gases.some
        /\ \E n \in Range(gases.val) : n \notin Names(Gases(reader))

\* C9 as claimed: an unknown classification or gas name makes the query
\* fail with the unknown-dimension-value error, with no payload handed to _post
C9_UnknownNameKeyError ==
  UnknownName => (pc = "failed" /\ error = "KeyError: name" /\ posts = <<>>)

\* C9 as amended: an unknown classification or gas name makes the query
\* fail with no payload handed to _post: with the unknown-party error if a
\* party code is unknown too, else with the unknown-dimension-value error
C9_UnknownNameFailsBeforePost ==
  UnknownName =>
    /\ pc = "failed"
    /\ posts = <<>>
    /\ error = IF \E c \in Range(args.party_codes) : c \notin Codes(reader)
               THEN "ValueError: Unknown party" ELSE "KeyError: name"

\* C9 witness: known parties, an unknown gas name, the KeyError
C9_Witness ==
  /\ pc = "failed"
  /\ error = "KeyError: name"
  /\ args.party_codes = <<DEU, TUR>>
  /\ args.gases = Some(<<XYZ>>)
  /\ args.classifications = None
  /\ posts = <<>>

\* the queries of one gas given by an alias of GAS_MAPPING
AliasQuery ==
  /\ reader # "none"
  /\ args.gases.some
  /\ Len(args.gases.val) = 1
  /\ \E e \in GAS_MAPPING : e[1] = args.gases.val[1]

\* C10: a query for a gas by its ASCII alias selects the gas id the native
\* name selects, and every row of the table has the alias in the gas column
\* when normalize_gas_names is true and the native name when it is false
C10_GasAliases ==
  AliasQuery =>
    LET alias == args.gases.val[1]
        native == (CHOOSE e \in GAS_MAPPING : e[1] = alias)[2]
        ids == {Gases(reader)[k].id : k \in {m \in 1..Len(Gases(reader)) : Gases(reader)[m].name = native}}
    IN  /\ pc \in {"loop", "waiting", "done"} =>
              (gas_ids.some /\ Len(gas_ids.val) = 1 /\ gas_ids.val[1] \in ids)
        /\ \A row \in Range(df) :
              row.gas = IF args.normalize_gas_names THEN alias ELSE native

\* C10 witness: the facade asked for "N2O" with normalisation, rows returned
C10_Witness ==
  /\ pc = "done"
  /\ facade_call.some
  /\ args.gases = Some(<<N2O>>)
  /\ args.normalize_gas_names
  /\ df # <<>>
  /\ \A row \in Range(df) : row.gas = N2O

\* the native names of GAS_MAPPING
NativeNames == {e[2] : e \in GAS_MAPPING}

\* C11: for every native name of GAS_MAPPING in the gas column of a frame,
\* the normalised frame holds its alias, and a query given the normalised
\* name maps it back to the native name; no two aliases of the table have
\* the same native name, and no alias has two native names
C11_NormalizeInvolutive ==
  /\ \A e1, e2 \in GAS_MAPPING : (e1[1] = e2[1] \/ e1[2] = e2[2]) => e1 = e2
  /\ \A k \in 1..Len(parsed) :
        parsed[k].gas \in NativeNames =>
          /\ pc \in {"normalized", "mapped"} =>
                <<df[k].gas, parsed[k].gas>> \in GAS_MAPPING
          /\ pc = "mapped" => gases.val[k] = parsed[k].gas

\* C11 witness: a frame with the native names of NOx and C5F12 was normalised
\* to the aliases and the aliases were mapped back
C11_Witness ==
  /\ pc = "mapped"
  /\ Len(parsed) = 2
  /\ parsed[1].gas = <<78, 79, 8339>>
  /\ parsed[2].gas = <<67, 53, 70, 8321, 8322>>
  /\ df[1].gas = NOx
  /\ df[2].gas = <<67, 53, 70, 49, 50>>
  /\ gases = Some(<<parsed[1].gas, parsed[2].gas>>)

\* ceil(n / b)
Ceil(n, b) == (n + b - 1) \div b

\* the requests that have returned: all but the one in flight or failed
Returned ==
  IF pc = "waiting" \/ error = "HTTPError" THEN Len(posts) - 1 ELSE Len(posts)

RECURSIVE AnswersOf(_)
\* the answers of a sequence of requests, concatenated in order
AnswersOf(ps) ==
  IF ps = <<>> THEN <<>> ELSE _post(fixture, Head(ps)) \o AnswersOf(Tail(ps))

\* the ids of the party codes of the running query, in the caller's order
PartyIdsOfCodes ==
  [k \in 1..Len(args.party_codes) |->
     (CHOOSE p \in Range(Parties(reader)) : p.code = args.party_codes[k]).id]

\* C12 (safety part): the requests issued so far are the first chunks of the
\* consecutive partition of variable_ids by batch_size, each with the whole
\* party id list of the caller's codes and every year id of the reader; the
\* answers of all requests before the last one issued are already collected;
\* once the loop has ended there are ceil(n / batch_size) requests, none and
\* no point for an empty id list
C12_Partition ==
  LET n == Len(variable_ids)
      b == args.batch_size
  IN  /\ Len(posts) <= Ceil(n, b)
      /\ \A k \in 1..Len(posts) :
            /\ posts[k].variableIds = SubSeq(variable_ids, (k - 1) * b + 1, Min(k * b, n))
            /\ posts[k].partyIds = PartyIdsOfCodes
            /\ posts[k].yearIds = [j \in 1..Len(Years(reader)) |-> Years(reader)[j].id]
      /\ raw_response = AnswersOf(SubSeq(posts, 1, Returned))
      /\ LoopFinished => Len(posts) = Ceil(n, b)
      /\ (LoopFinished /\ n = 0) => (posts = <<>> /\ raw_response = <<>>)

\* C12: the requests are the consecutive partition, one at a time, and a
\* query that entered the loop leaves it: it returns a table or raises
C12_LoopPartitionsAndTerminates ==
  /\ []C12_Partition
  /\ (pc = "loop") ~> (pc \in {"done", "failed"})

\* C12 witness: three ids in batches of two, two requests, the second with
\* the last id alone and both parties, the table returned
C12_Witness ==
  /\ pc = "done"
  /\ Len(variable_ids) = 3
  /\ args.batch_size = 2
  /\ Len(posts) = 2
  /\ posts[2].variableIds = <<variable_ids[3]>>
  /\ Len(posts[2].partyIds) = 2

\* C12 witness of the empty case: no id selected, no request, the loop ended
C12_WitnessEmpty ==
  /\ LoopFinished
  /\ variable_ids = <<>>
  /\ posts = <<>>

\* C13 (as the claim states it): once the loop has ended, a warning was
\* logged if and only if more than WarnThreshold variable ids were selected,
\* whatever the batch size, and the query did not fail for it
C13_WarnsOnUnchunkedCount ==
  LoopFinished =>
    (warnings > 0 <=> Len(variable_ids) > WarnThreshold)

\* C14 (state part): a query ended by a transport failure has failed with
\* that failure; no table, no frame and no row was built, not even from the
\* answers collected before, and no NoDataError was raised; the failed
\* request is the last one issued and was issued once
C14_FailureState ==
  error = "HTTPError" =>
    /\ pc = "failed"
    /\ data = <<>> /\ parsed = <<>> /\ df = <<>>
    /\ error_args = NoErrorArgs
    /\ posts # <<>>
    /\ \A k \in 1..(Len(posts) - 1) : posts[k] # posts[Len(posts)]
    /\ Len(posts) <= Ceil(Len(variable_ids), args.batch_size)

\* C14: a transport failure ends the query with that failure, and nothing
\* follows it: no request is issued again or anew, no table is returned and
\* no other error takes its place
C14_TransportFailurePropagates ==
  /\ []C14_FailureState
  /\ [][error = "HTTPError" =>
          (posts' = posts /\ pc' = "failed" /\ error' = "HTTPError" /\ df' = df)]_vars

\* C14 witness: of three requests of one id each the second failed, after
\* the first had returned points; the third was never issued
C14_Witness ==
  /\ error = "HTTPError"
  /\ Len(variable_ids) = 3
  /\ args.batch_size = 1
  /\ Len(posts) = 2
  /\ raw_response # <<>>

\* C15 (as the claim states it): the k-th call of the progress bar's update
\* is given the cumulative count min(k * batch_size, n)
C15_UpdateGivenCumulativeCount ==
  \A k \in 1..Len(pbar) :
     pbar[k] = Min(k * args.batch_size, Len(variable_ids))

\* C15 (amended): without progress the bar is never updated; with progress
\* it is updated once for each request that has returned and for no other,
\* the k-th update is given the number of ids of the k-th chunk, which is at
\* least one, so that the bar's counter after it is min(k * batch_size, n),
\* and it is n once the loop has ended
C15_UpdateGivenChunkLength ==
  /\ ~args.progress => pbar = <<>>
  /\ args.progress =>
       /\ Len(pbar) = Returned
       /\ \A k \in 1..Len(pbar) :
             /\ pbar[k] = Len(posts[k].variableIds)
             /\ pbar[k] >= 1
             /\ Sum(SubSeq(pbar, 1, k)) = Min(k * args.batch_size, Len(variable_ids))
       /\ LoopFinished => Sum(pbar) = Len(variable_ids)

\* C15 witness: three ids in batches of two with progress: updates of 2 and
\* of 1, the table returned
C15_Witness ==
  /\ pc = "done"
  /\ args.progress
  /\ args.batch_size = 2
  /\ Len(variable_ids) = 3
  /\ pbar = <<2, 1>>

\* C16: at every point of the construction and after it, the index of the
\* reader has one key for each distinct variableId of the entries read, the
\* records under a key are the entries with that variableId, all of them
\* and in the order read, exact duplicates included, and the records of all
\* keys are as many as the entries read
C16_IndexKeepsEveryEntry ==
  LET vs == variables["annexOne"]
      d == _variables_dict["annexOne"]
  IN  /\ DOMAIN d = {vs[k].variableId : k \in 1..Len(vs)}
      /\ \A v \in DOMAIN d :
            /\ \A j \in 1..Len(d[v]) : d[v][j].variableId = v
            /\ d[v] = SelectSeq(vs, LAMBDA x : x.variableId = v)
      /\ Cardinality({<<v, j>> \in (DOMAIN d) \X (1..Len(vs)) : j <= Len(d[v])}) = Len(vs)

\* C16 witness: a reader constructed from a listing of two equal entries:
\* both are under their variableId
C16_Witness ==
  /\ pc = "idle"
  /\ Len(variables["annexOne"]) = 2
  /\ variables["annexOne"][1] = variables["annexOne"][2]
  /\ Len(_variables_dict["annexOne"][variables["annexOne"][1].variableId]) = 2

\* every raw point is of a variable id that was selected and so requested
RequestedOnly ==
  \A k \in 1..Len(raw_response) : raw_response[k].variableId \in Range(variable_ids)

\* C17: every variable id that _select_variable_ids returned has a record
\* in the index that passes the filters as _parse_raw_answer applies them;
\* and when the loop has ended with raw points of selected ids only, an
\* empty raw response is reported as NoDataError and a non-empty one gives
\* a table with at least one row for each raw point
C17_SelectionAgreesWithAssembly ==
  /\ \A v \in Range(variable_ids) :
        /\ v \in DOMAIN _variables_dict[reader]
        /\ \E j \in 1..Len(_variables_dict[reader][v]) :
              Passes(_variables_dict[reader][v][j], classification_ids,
                     args.category_ids, args.measure_ids, gas_ids)
  /\ (LoopFinished /\ RequestedOnly) =>
        IF raw_response = <<>>
        THEN pc = "failed" /\ error = "NoDataError"
        ELSE /\ pc = "done"
             /\ parsed # <<>> /\ df # <<>>
             /\ \A k \in 1..Len(raw_response) :
                   \E pair \in PassingPairs : pair[1] = k /\ PairRow(pair) \in Range(parsed)

\* C17 witness: variable 1 of the annexOne reader has records of the
\* categories 1 and 2; a query for category 2 selects it, the remote answers
\* with its points and the table has rows
C17_Witness ==
  /\ pc = "done"
  /\ reader = "annexOne"
  /\ fixture = "honest"
  /\ args.category_ids = Some(<<2>>)
  /\ variable_ids = <<1>>
  /\ raw_response # <<>>
  /\ df # <<>>

====
